---- MODULE Spec2Model ----
(***************************************************************************)
(* State-machine model of src/src/main.js: the hand-tracking VR cube app. *)
(* Cubes are spawned by a left-hand pinch, grabbed by a right-hand pinch,  *)
(* scaled with both hands, wired together in connection mode, and the      *)
(* exit / reset / connect buttons are driven by the two hand pointers      *)
(* through the ECS ButtonSystem and HandRaySystem once per frame.          *)
(*                                                                         *)
(* Lengths are integers on a one-dimensional grid whose step is the        *)
(* bounding-sphere radius of a cube; scales are fixed-point numbers with   *)
(* UnitScale standing for 1.0.                                             *)
(***************************************************************************)
EXTENDS Integers, Sequences, FiniteSets, TLC

\* ------------------------------------------------------------------ bounds
MaxCubes == 2        \* cube objects created over a run (new THREE.Mesh)
MaxConnections == 2  \* length of the connection list
MaxTimers == 2       \* pending exit timeouts
MaxScale == 4        \* largest fixed-point scale a frame may write

\* --------------------------------------------------------------- constants
UnitScale == 2       \* fixed-point representation of the scale 1.0
Radius == 1          \* cube.geometry.boundingSphere.radius, in grid steps

None == 0            \* null / undefined
CubeIds == 1..MaxCubes
Positions == {0, 1}   \* grid points a fingertip or a cube can be at
Distances == {1, 2}  \* inter-fingertip distances (positive)
Buttons == <<"exit", "reset", "connect">>   \* entity creation order
ButtonSet == {"exit", "reset", "connect"}
ButtonStates == {"none", "hovered", "pressed"}
Targets == {"nothing", "menu", "exit", "reset", "connect"}
Hands == {"left", "right"}

VARIABLES
    cubes,               \* let cubes = []
    connections,         \* let connections = []
    grabbing,            \* let grabbing = false
    scaling,             \* let scaling = {active, initialDistance, object, initialScale}
    connectionMode,      \* let connectionMode = false
    connectionSelection, \* let connectionSelection = []
    selected,            \* hand2.userData.selected
    button,              \* Button component of each button entity
    pinching,            \* per hand: a pinch is in progress (pinchstart seen, no pinchend yet)
    nextCube,            \* number of cube objects created so far
    parent,              \* scene-graph parent of each cube object
    pos,                 \* world position of each cube object
    scale,               \* cube.scale.x of each cube object
    emissive,            \* cube.material.emissive is green
    sceneLines,          \* number of connection lines that are children of the scene
    exitTextVisible,     \* exitText.visible
    timers,              \* pending setTimeout callbacks of exitAction
    session,             \* renderer.xr.getSession() is non-null
    sessionError,        \* a timeout callback called end() on a null session
    fired,               \* button actions invoked by the latest step
    pressRun             \* per button: consecutive frames (capped at 2) in which a pinched pointer hit it

vars == <<cubes, connections, grabbing, scaling, connectionMode, connectionSelection,
          selected, button, pinching, nextCube, parent, pos, scale, emissive,
          sceneLines, exitTextVisible, timers, session, sessionError, fired, pressRun>>

\* ----------------------------------------------------------------- helpers
Abs(x) == IF x < 0 THEN -x ELSE x

\* Vector3.distanceTo on the grid
DistanceTo(a, b) == Abs(a - b)

Includes(s, x) == \E i \in 1..Len(s) : s[i] = x

\* function collideCube(indexTip): the first cube of the registry, in order,
\* whose centre is closer to the fingertip than radius * scale.x
Hit(tip, cube) == DistanceTo(tip, pos[cube]) * UnitScale < Radius * scale[cube]

\* a hit-test that returns the nearest qualifying cube instead of the first
collideCube_Nearest(tip) ==
    IF \E i \in 1..Len(cubes) : Hit(tip, cubes[i])
    THEN cubes[CHOOSE i \in 1..Len(cubes) :
                 /\ Hit(tip, cubes[i])
                 /\ \A j \in 1..Len(cubes) :
                      Hit(tip, cubes[j]) =>
                        \/ DistanceTo(tip, pos[cubes[i]]) < DistanceTo(tip, pos[cubes[j]])
                        \/ (/\ DistanceTo(tip, pos[cubes[i]]) = DistanceTo(tip, pos[cubes[j]])
                            /\ i <= j)]
    ELSE None

collideCube(tip) ==
    IF \E i \in 1..Len(cubes) : Hit(tip, cubes[i])
    THEN cubes[CHOOSE i \in 1..Len(cubes) :
                 /\ Hit(tip, cubes[i])
                 /\ \A j \in 1..(i - 1) : ~Hit(tip, cubes[j])]
    ELSE None

\* ------------------------------------------------------------------- Init
Init ==
    /\ cubes = <<>>
    /\ connections = <<>>
    /\ grabbing = FALSE
    /\ scaling = [active |-> FALSE, initialDistance |-> 0, object |-> None,
                  initialScale |-> UnitScale]
    /\ connectionMode = FALSE
    /\ connectionSelection = <<>>
    /\ selected = None
    /\ button = [b \in ButtonSet |-> [currState |-> "none", prevState |-> "none"]]
    /\ pinching = [h \in Hands |-> FALSE]
    /\ nextCube = 0
    /\ parent = [c \in CubeIds |-> "none"]
    /\ pos = [c \in CubeIds |-> 0]
    /\ scale = [c \in CubeIds |-> UnitScale]
    /\ emissive = [c \in CubeIds |-> FALSE]
    /\ sceneLines = 0
    /\ exitTextVisible = FALSE
    /\ timers = 0
    /\ session = TRUE
    /\ sessionError = FALSE
    /\ fired = {}
    /\ pressRun = [b \in ButtonSet |-> 0]

uiVars == <<button, exitTextVisible, timers, session, sessionError, pressRun>>

\* ------------------------------------------------------- left-hand pinch
\* function onPinchStartLeft(event)
\* the same-cube test `hand2.userData.selected === cube` left out
ScalingEntered_AnyCube(tipL) ==
    /\ grabbing
    /\ collideCube(tipL) # None

ScalingEntered(tipL) ==
    /\ grabbing
    /\ collideCube(tipL) # None
    /\ selected = collideCube(tipL)

\* a spawn that keeps the new cube out of the registry until the pinch ends
onPinchStartLeft_Preview(tipL, tipDist) ==
    /\ session
    /\ ~pinching["left"]
    /\ pinching' = [pinching EXCEPT !["left"] = TRUE]
    /\ fired' = {}
    /\ IF ScalingEntered(tipL)
       THEN /\ scaling' = [active |-> TRUE,
                           object |-> collideCube(tipL),
                           initialScale |-> scale[collideCube(tipL)],
                           initialDistance |-> tipDist]
            /\ UNCHANGED <<nextCube, parent, pos, scale, emissive>>
       ELSE /\ nextCube < MaxCubes
            /\ nextCube' = nextCube + 1
            /\ parent' = [parent EXCEPT ![nextCube + 1] = "tip"]
            /\ pos' = [pos EXCEPT ![nextCube + 1] = tipL]
            /\ scale' = [scale EXCEPT ![nextCube + 1] = UnitScale]
            /\ emissive' = [emissive EXCEPT ![nextCube + 1] = FALSE]
            /\ UNCHANGED scaling
    /\ UNCHANGED <<cubes, connections, grabbing, connectionMode, connectionSelection,
                   selected, sceneLines>>
    /\ UNCHANGED <<button, exitTextVisible, timers, session, sessionError, pressRun>>

onPinchStartLeft(tipL, tipDist) ==
    /\ session
    /\ ~pinching["left"]
    /\ pinching' = [pinching EXCEPT !["left"] = TRUE]
    /\ fired' = {}
    /\ IF ScalingEntered(tipL)
       THEN /\ scaling' = [active |-> TRUE,
                           object |-> collideCube(tipL),
                           initialScale |-> scale[collideCube(tipL)],
                           initialDistance |-> tipDist]
            /\ UNCHANGED <<cubes, nextCube, parent, pos, scale, emissive>>
       ELSE /\ nextCube < MaxCubes
            /\ nextCube' = nextCube + 1
            /\ cubes' = Append(cubes, nextCube + 1)
            /\ parent' = [parent EXCEPT ![nextCube + 1] = "scene"]
            /\ pos' = [pos EXCEPT ![nextCube + 1] = tipL]
            /\ scale' = [scale EXCEPT ![nextCube + 1] = UnitScale]
            /\ emissive' = [emissive EXCEPT ![nextCube + 1] = FALSE]
            /\ UNCHANGED scaling
    /\ UNCHANGED <<connections, grabbing, connectionMode, connectionSelection,
                   selected, sceneLines>>
    /\ UNCHANGED uiVars

\* a pinch-end that also forgets the scaled cube
onPinchEndLeft_ClearsObject ==
    /\ session
    /\ pinching["left"]
    /\ pinching' = [pinching EXCEPT !["left"] = FALSE]
    /\ fired' = {}
    /\ scaling' = [scaling EXCEPT !.active = FALSE, !.object = None]
    /\ UNCHANGED <<cubes, connections, grabbing, connectionMode, connectionSelection,
                   selected, nextCube, parent, pos, scale, emissive, sceneLines>>
    /\ UNCHANGED <<button, exitTextVisible, timers, session, sessionError, pressRun>>

\* a pinch-end that leaves scaling switched on
onPinchEndLeft_KeepsActive ==
    /\ session
    /\ pinching["left"]
    /\ pinching' = [pinching EXCEPT !["left"] = FALSE]
    /\ fired' = {}
    /\ UNCHANGED <<cubes, connections, grabbing, scaling, connectionMode,
                   connectionSelection, selected, nextCube, parent, pos, scale,
                   emissive, sceneLines>>
    /\ UNCHANGED <<button, exitTextVisible, timers, session, sessionError, pressRun>>

\* function onPinchEndLeft(event)
onPinchEndLeft ==
    /\ session
    /\ pinching["left"]
    /\ pinching' = [pinching EXCEPT !["left"] = FALSE]
    /\ fired' = {}
    /\ scaling' = [scaling EXCEPT !.active = FALSE]
    /\ UNCHANGED <<cubes, connections, grabbing, connectionMode, connectionSelection,
                   selected, nextCube, parent, pos, scale, emissive, sceneLines>>
    /\ UNCHANGED uiVars

\* ------------------------------------------------------ right-hand pinch
Connected(a, b) ==
    \E i \in 1..Len(connections) :
        {connections[i].cube1, connections[i].cube2} = {a, b}

\* a createConnectionLine that skips a pair that is already connected
createConnectionLine_Dedup(cube1, cube2) ==
    IF Connected(cube1, cube2) THEN connections
    ELSE Append(connections, [cube1 |-> cube1, cube2 |-> cube2,
                              p1 |-> pos[cube1], p2 |-> pos[cube2]])

\* a createConnectionLine that stores the first cube as both endpoints
createConnectionLine_SameEnd(cube1, cube2) ==
    Append(connections, [cube1 |-> cube1, cube2 |-> cube1,
                         p1 |-> pos[cube1], p2 |-> pos[cube1]])

\* function createConnectionLine(cube1, cube2): the list after the push
createConnectionLine(cube1, cube2) ==
    Append(connections, [cube1 |-> cube1, cube2 |-> cube2,
                         p1 |-> pos[cube1], p2 |-> pos[cube2]])

\* a select step without the includes() test
SelectCube_NoCheck(sel, cube) == Append(sel, cube)

\* connectionSelection after `if (!connectionSelection.includes(cube)) push(cube)`
SelectCube(sel, cube) ==
    IF Includes(sel, cube) THEN sel ELSE Append(sel, cube)

\* material.emissive after the select step and, for a completed pair, the reset to black
EmissiveAfterSelect(sel, cube) ==
    LET lit == IF Includes(sel, cube) THEN emissive
               ELSE [emissive EXCEPT ![cube] = TRUE]
        sel1 == SelectCube(sel, cube)
    IN  IF Len(sel1) = 2
        THEN [c \in CubeIds |-> IF Includes(sel1, c) THEN FALSE ELSE lit[c]]
        ELSE lit

\* a right pinch-start that starts a grab in connection mode as well
onPinchStartRight_AlsoGrabs(tipR) ==
    /\ session
    /\ ~pinching["right"]
    /\ pinching' = [pinching EXCEPT !["right"] = TRUE]
    /\ fired' = {}
    /\ LET cube == collideCube(tipR)
           sel1 == SelectCube(connectionSelection, cube)
       IN  IF cube = None
           THEN UNCHANGED <<connections, grabbing, connectionMode, connectionSelection,
                            selected, parent, emissive, sceneLines>>
           ELSE /\ grabbing' = TRUE
                /\ parent' = [parent EXCEPT ![cube] = "tip"]
                /\ selected' = cube
                /\ IF connectionMode
                   THEN /\ emissive' = EmissiveAfterSelect(connectionSelection, cube)
                        /\ IF Len(sel1) = 2
                           THEN /\ Len(connections) < MaxConnections
                                /\ connections' = createConnectionLine(sel1[1], sel1[2])
                                /\ sceneLines' = sceneLines + 1
                                /\ connectionSelection' = <<>>
                                /\ connectionMode' = FALSE
                           ELSE /\ connectionSelection' = sel1
                                /\ UNCHANGED <<connections, sceneLines, connectionMode>>
                   ELSE UNCHANGED <<connections, connectionMode, connectionSelection,
                                    emissive, sceneLines>>
    /\ UNCHANGED <<cubes, scaling, nextCube, pos, scale>>
    /\ UNCHANGED uiVars

\* function onPinchStartRight(event)
onPinchStartRight(tipR) ==
    /\ session
    /\ ~pinching["right"]
    /\ pinching' = [pinching EXCEPT !["right"] = TRUE]
    /\ fired' = {}
    /\ LET cube == collideCube(tipR)
           sel1 == SelectCube(connectionSelection, cube)
       IN  IF cube = None
           THEN UNCHANGED <<connections, grabbing, connectionMode, connectionSelection,
                            selected, parent, emissive, sceneLines>>
           ELSE IF connectionMode
           THEN /\ emissive' = EmissiveAfterSelect(connectionSelection, cube)
                /\ IF Len(sel1) = 2
                   THEN /\ Len(connections) < MaxConnections
                        /\ connections' = createConnectionLine(sel1[1], sel1[2])
                        /\ sceneLines' = sceneLines + 1
                        /\ connectionSelection' = <<>>
                        /\ connectionMode' = FALSE
                   ELSE /\ connectionSelection' = sel1
                        /\ UNCHANGED <<connections, sceneLines, connectionMode>>
                /\ UNCHANGED <<grabbing, selected, parent>>
           ELSE /\ grabbing' = TRUE
                /\ parent' = [parent EXCEPT ![cube] = "tip"]
                /\ selected' = cube
                /\ UNCHANGED <<connections, connectionMode, connectionSelection,
                               emissive, sceneLines>>
    /\ UNCHANGED <<cubes, scaling, nextCube, pos, scale>>
    /\ UNCHANGED uiVars

\* a pinch-end that detaches the cube but leaves `grabbing` set
onPinchEndRight_KeepsGrabbing ==
    /\ session
    /\ pinching["right"]
    /\ pinching' = [pinching EXCEPT !["right"] = FALSE]
    /\ fired' = {}
    /\ IF selected # None
       THEN /\ parent' = [parent EXCEPT ![selected] = "scene"]
            /\ selected' = None
       ELSE UNCHANGED <<parent, selected>>
    /\ scaling' = [scaling EXCEPT !.active = FALSE]
    /\ UNCHANGED <<cubes, connections, grabbing, connectionMode, connectionSelection,
                   nextCube, pos, scale, emissive, sceneLines>>
    /\ UNCHANGED <<button, exitTextVisible, timers, session, sessionError, pressRun>>

\* function onPinchEndRight(event)
onPinchEndRight ==
    /\ session
    /\ pinching["right"]
    /\ pinching' = [pinching EXCEPT !["right"] = FALSE]
    /\ fired' = {}
    /\ IF selected # None
       THEN /\ parent' = [parent EXCEPT ![selected] = "scene"]
            /\ selected' = None
            /\ grabbing' = FALSE
       ELSE UNCHANGED <<parent, selected, grabbing>>
    /\ scaling' = [scaling EXCEPT !.active = FALSE]
    /\ UNCHANGED <<cubes, connections, connectionMode, connectionSelection,
                   nextCube, pos, scale, emissive, sceneLines>>
    /\ UNCHANGED uiVars

\* The right fingertip moves between events and carries the cube that
\* indexTip.attach(cube) made its child.
MoveGrabbed(p) ==
    /\ session
    /\ selected # None
    /\ parent[selected] = "tip"
    /\ pos[selected] # p
    /\ pos' = [pos EXCEPT ![selected] = p]
    /\ fired' = {}
    /\ UNCHANGED <<cubes, connections, grabbing, scaling, connectionMode,
                   connectionSelection, selected, pinching, nextCube, parent,
                   scale, emissive, sceneLines>>
    /\ UNCHANGED uiVars

\* ------------------------------------------------------------ the buttons
\* a level-triggered button: fires in every frame that finds it pressed
ButtonFires_Level(btn) == btn.currState = "pressed"

\* ButtonSystem.execute: `currState === 'pressed' && prevState !== 'pressed'`
ButtonFires(btn) == btn.currState = "pressed" /\ btn.prevState # "pressed"

\* ButtonSystem.execute: `prevState = currState; currState = 'none'`
ButtonSystemStep(btn) == [currState |-> "none", prevState |-> btn.currState]

\* HandRaySystem.execute, one hand pointer: the nearest intersected entity is
\* `target`; only a Button entity gets a state
HandRayStep(bs, target, pinched) ==
    IF target \in ButtonSet
    THEN IF pinched
         THEN [bs EXCEPT ![target].currState = "pressed"]
         ELSE IF bs[target].currState # "pressed"
         THEN [bs EXCEPT ![target].currState = "hovered"]
         ELSE bs
    ELSE bs

\* scene.remove(cube): Object3D.remove only detaches a direct child
SceneRemove(par, cube) ==
    IF par[cube] = "scene" THEN [par EXCEPT ![cube] = "none"] ELSE par

RECURSIVE RemoveAll(_, _)
RemoveAll(par, cs) ==
    IF cs = <<>> THEN par ELSE RemoveAll(SceneRemove(par, Head(cs)), Tail(cs))

\* a frame loop that leaves the line where it was created
UpdateLine_Stale(line) == line

\* the frame-loop update of one connection line's two endpoints
UpdateLine(line) == [line EXCEPT !.p1 = pos[line.cube1], !.p2 = pos[line.cube2]]

\* a scale that is additive in the difference of the distances
NewScale_Difference(sc, currentDistance) ==
    sc.initialScale + (currentDistance - sc.initialDistance) * UnitScale

\* `scaling.initialScale + currentDistance / scaling.initialDistance - 1`
NewScale(sc, currentDistance) ==
    sc.initialScale + (currentDistance * UnitScale) \div sc.initialDistance - UnitScale

\* what one pointer contributes to a button being pressed this frame
Presses(t, pinched, b) == t = b /\ pinched

\* function animate(): world.execute (ButtonSystem, then HandRaySystem), the
\* connection-line update, the scaling update
animate(t1, pinched1, t2, pinched2, currentDistance) ==
    LET fires == {b \in ButtonSet : ButtonFires(button[b])}
        afterButtons == [b \in ButtonSet |-> ButtonSystemStep(button[b])]
        afterRay == HandRayStep(HandRayStep(afterButtons, t1, pinched1), t2, pinched2)
        conns == IF "reset" \in fires THEN <<>> ELSE connections
    IN  /\ session \/ (t1 = "nothing" /\ t2 = "nothing" /\ ~pinched1 /\ ~pinched2)
        /\ fired' = fires
        /\ button' = afterRay
        /\ pressRun' = [b \in ButtonSet |->
                          IF Presses(t1, pinched1, b) \/ Presses(t2, pinched2, b)
                          THEN (IF pressRun[b] >= 1 THEN 2 ELSE 1)
                          ELSE 0]
        \* exitAction
        /\ IF "exit" \in fires
           THEN /\ timers < MaxTimers
                /\ exitTextVisible' = TRUE
                /\ timers' = timers + 1
           ELSE UNCHANGED <<exitTextVisible, timers>>
        \* resetAction
        /\ IF "reset" \in fires
           THEN /\ parent' = RemoveAll(parent, cubes)
                /\ cubes' = <<>>
                /\ sceneLines' = sceneLines - Len(connections)
           ELSE UNCHANGED <<parent, cubes, sceneLines>>
        \* connectAction
        /\ IF "connect" \in fires
           THEN /\ connectionMode' = TRUE
                /\ connectionSelection' = <<>>
           ELSE UNCHANGED <<connectionMode, connectionSelection>>
        \* connection lines follow their cubes
        /\ connections' = [i \in 1..Len(conns) |-> UpdateLine(conns[i])]
        \* two-handed scaling
        /\ IF scaling.active /\ scaling.object # None
           THEN /\ NewScale(scaling, currentDistance) <= MaxScale
                /\ scale' = [scale EXCEPT ![scaling.object] =
                                              NewScale(scaling, currentDistance)]
           ELSE UNCHANGED scale
        /\ UNCHANGED <<grabbing, scaling, selected, pinching, nextCube, pos, emissive,
                       session, sessionError>>

\* the callback exitAction handed to setTimeout
ExitTimeout ==
    /\ timers > 0
    /\ timers' = timers - 1
    /\ exitTextVisible' = FALSE
    /\ fired' = {}
    /\ IF session
       THEN session' = FALSE /\ UNCHANGED sessionError
       ELSE sessionError' = TRUE /\ UNCHANGED session
    /\ UNCHANGED <<cubes, connections, grabbing, scaling, connectionMode,
                   connectionSelection, selected, button, pinching, nextCube, parent,
                   pos, scale, emissive, sceneLines, pressRun>>

\* ---------------------------------------------------------- environments
\* What the two hand pointers can report in one frame: the entity each ray
\* hits first and whether that pointer is pinched.
PointerInputs ==
    {in \in [t1 : Targets, pinched1 : BOOLEAN, t2 : Targets, pinched2 : BOOLEAN] :
        /\ (in.t1 \notin ButtonSet => ~in.pinched1)
        /\ (in.t2 \notin ButtonSet => ~in.pinched2)}

\* One pointer aimed at nothing, or pinched on the reset or the connect button.
ScenePointerInputs ==
    {in \in PointerInputs :
        /\ in.t1 \in {"nothing", "reset", "connect"}
        /\ in.pinched1 = (in.t1 # "nothing")
        /\ in.t2 = "nothing"}

Frame(inputs, distances) ==
    \E in \in inputs, d \in distances :
        animate(in.t1, in.pinched1, in.t2, in.pinched2, d)

HandEvents(distances) ==
    \/ \E tipL \in Positions, d \in distances : onPinchStartLeft(tipL, d)
    \/ onPinchEndLeft
    \/ \E tipR \in Positions : onPinchStartRight(tipR)
    \/ onPinchEndRight

\* the whole program
Next ==
    \/ HandEvents(Distances)
    \/ \E p \in Positions : MoveGrabbed(p)
    \/ Frame(PointerInputs, Distances)
    \/ ExitTimeout

Spec == Init /\ [][Next]_vars

\* the scene: pinch events of a hand that holds still while it grabs (a cube
\* is spawned at any grid point), and frames in which one pointer works the
\* reset and connect buttons while the fingertips keep their distance
NextScene ==
    \/ HandEvents({1})
    \/ Frame(ScenePointerInputs, {1})

SpecScene == Init /\ [][NextScene]_vars

\* the menu: both pointers on the buttons, and the exit timeout
NextButtons ==
    \/ Frame(PointerInputs, {1})
    \/ ExitTimeout

SpecButtons == Init /\ [][NextButtons]_vars

\* both pointers aimed at nothing
IdlePointerInputs ==
    {in \in PointerInputs : in.t1 = "nothing" /\ in.t2 = "nothing"}

\* one pointer aimed at nothing, or pinched on the connect button
ConnectPointerInputs ==
    {in \in ScenePointerInputs : in.t1 # "reset"}

\* two-handed scaling: pinch events and frames with the fingertips at any of
\* the distances, the pointers off the menu
NextScale ==
    \/ HandEvents(Distances)
    \/ Frame(IdlePointerInputs, Distances)

SpecScale == Init /\ [][NextScale]_vars

\* the connection lines: pinch events, a grabbing hand that moves, and frames
\* in which one pointer works the connect button
NextLines ==
    \/ HandEvents({1})
    \/ \E p \in Positions : MoveGrabbed(p)
    \/ Frame(ConnectPointerInputs, {1})

SpecLines == Init /\ [][NextLines]_vars

\* ------------------------------------------------------------- properties
Range(seq) == {seq[i] : i \in 1..Len(seq)}

LeftPinchStartStep == ~pinching["left"] /\ pinching'["left"]
LeftPinchEndStep == pinching["left"] /\ ~pinching'["left"]
RightPinchStartStep == ~pinching["right"] /\ pinching'["right"]
RightPinchEndStep == pinching["right"] /\ ~pinching'["right"]

\* C1: both endpoints of every Connection in the connection list are cubes
\* currently in the registry.
C1_EndpointsRegistered ==
    \A i \in 1..Len(connections) :
        /\ connections[i].cube1 \in Range(cubes)
        /\ connections[i].cube2 \in Range(cubes)

\* C2: the right hand's grabbed cube is non-none exactly from a grab-start to
\* the matching pinch-end: `grabbing` and hand.userData.selected agree, a cube
\* is held only while the right hand pinches, a grab begins only at a right
\* pinch-start and lasts while the pinch lasts, and after every right
\* pinch-end selected is undefined and grabbing is false.
C2_GrabState ==
    /\ [](grabbing <=> selected # None)
    /\ [](selected # None => pinching["right"])
    /\ [][(selected = None /\ selected' # None) => RightPinchStartStep]_vars
    /\ [][(selected # None /\ pinching'["right"]) => selected' = selected]_vars
    /\ [][RightPinchEndStep => (selected' = None /\ ~grabbing')]_vars

C2_Witness == selected # None /\ grabbing /\ pinching["right"] /\ cubes # <<>>

\* C3: a button's action fires exactly once per uninterrupted press-hold: in
\* the frame that follows the first frame in which a pinched pointer hit the
\* button, and in no other step (not while the hold goes on, not for a button
\* that is only hovered), whichever of the two pointers does the pressing.
C3_FiresOncePerHold ==
    /\ [][\A b \in ButtonSet : b \in fired' => pressRun[b] = 1]_vars
    /\ [][\A b \in ButtonSet :
            (pressRun[b] = 1 /\ pressRun'[b] # 1) => b \in fired']_vars

C3_Witness ==
    \E b \in ButtonSet :
        /\ b \in fired
        /\ pressRun[b] = 2
        /\ button[b].prevState = "pressed"

\* C4: connectionSelection never holds more than 2 cubes nor the same cube
\* twice, and a right pinch-start on a cube that is already selected leaves
\* it unchanged.
C4_SelectionSet ==
    /\ [](Len(connectionSelection) <= 2)
    /\ [](\A i, j \in 1..Len(connectionSelection) :
            connectionSelection[i] = connectionSelection[j] => i = j)
    /\ [][\A tipR \in Positions :
            (/\ onPinchStartRight(tipR)
             /\ connectionMode
             /\ collideCube(tipR) # None
             /\ Includes(connectionSelection, collideCube(tipR)))
            => connectionSelection' = connectionSelection]_vars

C4_Witness ==
    /\ connectionMode
    /\ Len(connectionSelection) = 1
    /\ pinching["right"]
    /\ emissive[connectionSelection[1]]

\* C5: scaling is entered only by a left pinch-start that collides with the
\* cube the right hand is grabbing, and scaling.active implies that the right
\* hand is grabbing and that scaling.object is the grabbed cube.
C5_ScalingNeedsGrab ==
    /\ [](scaling.active =>
            (grabbing /\ selected # None /\ scaling.object = selected))
    /\ [][(~scaling.active /\ scaling'.active) =>
            (/\ LeftPinchStartStep
             /\ grabbing
             /\ selected # None
             /\ \E tipL \in Positions : collideCube(tipL) = selected
             /\ scaling'.object = selected)]_vars

C5_Witness == scaling.active /\ pinching["left"] /\ pinching["right"]

\* C6 (as claimed): no two Connections join the same unordered pair of cubes.
C6_NoDuplicatePair ==
    \A i, j \in 1..Len(connections) :
        {connections[i].cube1, connections[i].cube2}
            = {connections[j].cube1, connections[j].cube2} => i = j

\* C6 (amended): createConnectionLine makes no duplicate check: the pinch-start
\* that completes a pair appends one Connection also when that unordered pair
\* is already connected.
C6_ConnectAppendsAlways ==
    [][\A tipR \in Positions :
         (/\ onPinchStartRight(tipR)
          /\ connectionMode
          /\ Len(connectionSelection) = 1
          /\ collideCube(tipR) # None
          /\ collideCube(tipR) # connectionSelection[1]
          /\ Connected(connectionSelection[1], collideCube(tipR)))
         => Len(connections') = Len(connections) + 1]_vars

C6_Witness ==
    \E i, j \in 1..Len(connections) :
        /\ i # j
        /\ {connections[i].cube1, connections[i].cube2}
               = {connections[j].cube1, connections[j].cube2}

\* C7 (as claimed): the new cube is committed to the registry only on the
\* left hand's pinch-end, so a left pinch-start leaves the registry as it was.
C7_RegistryUnchangedByPinchStart ==
    [][LeftPinchStartStep => cubes' = cubes]_vars

\* C7 (amended): there is no pending preview: a left pinch-start that does not
\* enter scaling creates the cube, appends it to the registry and adds it to
\* the scene in the same handler, and the left pinch-end changes neither the
\* registry nor the scene graph.
C7_SpawnCommitsOnPinchStart ==
    /\ [][LeftPinchStartStep =>
            \/ (scaling'.active /\ cubes' = cubes /\ parent' = parent)
            \/ (/\ ~scaling'.active
                /\ nextCube' = nextCube + 1
                /\ cubes' = Append(cubes, nextCube')
                /\ parent' = [parent EXCEPT ![nextCube'] = "scene"])]_vars
    /\ [][LeftPinchEndStep => (cubes' = cubes /\ parent' = parent)]_vars

C7_Witness ==
    /\ pinching["left"]
    /\ ~scaling.active
    /\ nextCube >= 1
    /\ cubes # <<>>
    /\ cubes[Len(cubes)] = nextCube
    /\ parent[nextCube] = "scene"

\* C8: a right pinch-end while the hand holds no cube, and a left pinch-end
\* while scaling is not active, change nothing in the registry, the
\* connection list, the SelectionSet, connection mode, the grab state and the
\* scaling state.
C8_InvalidEndIsNoOp ==
    /\ [][(RightPinchEndStep /\ selected = None) =>
            UNCHANGED <<cubes, connections, connectionSelection, connectionMode,
                        grabbing, selected, parent, scaling>>]_vars
    /\ [][(LeftPinchEndStep /\ ~scaling.active) =>
            UNCHANGED <<cubes, connections, connectionSelection, connectionMode,
                        grabbing, selected, parent, scaling>>]_vars

C8_Witness ==
    /\ pinching["right"]
    /\ selected = None
    /\ pinching["left"]
    /\ ~scaling.active
    /\ scaling.object # None
    /\ cubes # <<>>

\* C9: right after resetAction has run, the registry and the connection list
\* are empty and no cube and no connection line is left in the scene graph.
C9_ResetClearsScene ==
    "reset" \in fired =>
        /\ cubes = <<>>
        /\ connections = <<>>
        /\ sceneLines = 0
        /\ \A c \in CubeIds : parent[c] = "none"

\* C10: in connection mode, the pinch-start that selects the first cube
\* creates no Connection and keeps the mode on; the one that selects a second,
\* distinct cube appends exactly one Connection from the first-selected to the
\* second-selected cube, empties the SelectionSet and switches the mode off.
\* Outside connection mode a pinch-start creates no Connection.
C10_PairMakesOneConnection ==
    /\ [][(RightPinchStartStep /\ connectionMode) =>
            \/ (/\ connections' = connections
                /\ connectionMode'
                /\ \/ connectionSelection' = connectionSelection
                   \/ (/\ connectionSelection = <<>>
                       /\ Len(connectionSelection') = 1
                       /\ connectionSelection'[1] \in Range(cubes)))
            \/ (/\ Len(connectionSelection) = 1
                /\ \E c \in Range(cubes) \ {connectionSelection[1]} :
                     connections' = Append(connections,
                        [cube1 |-> connectionSelection[1], cube2 |-> c,
                         p1 |-> pos[connectionSelection[1]], p2 |-> pos[c]])
                /\ connectionSelection' = <<>>
                /\ ~connectionMode')]_vars
    /\ [][(RightPinchStartStep /\ ~connectionMode) =>
            (connections' = connections /\ ~connectionMode')]_vars

C10_Witness ==
    /\ pinching["right"]
    /\ ~connectionMode
    /\ connectionSelection = <<>>
    /\ Len(connections) >= 1
    /\ connections[Len(connections)].cube1 # connections[Len(connections)].cube2
    /\ \A c \in CubeIds : ~emissive[c]

\* a frame with the fingertips at distance d
FrameAt(d) ==
    \E in \in PointerInputs : animate(in.t1, in.pinched1, in.t2, in.pinched2, d)

\* C11: a pinch-end of either hand sets scaling.active to false and leaves
\* every cube's scale as it is, and while scaling is not active no step (no
\* frame in particular) changes a scale.
C11_ExitKeepsScale ==
    /\ [][(LeftPinchEndStep \/ RightPinchEndStep) =>
            (~scaling'.active /\ scale' = scale)]_vars
    /\ [][~scaling.active => scale' = scale]_vars

C11_Witness ==
    /\ ~scaling.active
    /\ scaling.object # None
    /\ scale[scaling.object] # scaling.initialScale
    /\ scale[scaling.object] # UnitScale

\* C12 (as claimed): a frame while scaling is active sets the cube's scale to
\* initialScale + (currentDistance - initialDistance).
C12_AdditiveInDifference ==
    [][\A d \in Distances :
         (FrameAt(d) /\ scaling.active /\ scaling.object # None) =>
            scale'[scaling.object]
                = scaling.initialScale + (d - scaling.initialDistance) * UnitScale]_vars

\* C12 (amended): a frame while scaling is active sets the cube's scale to
\* initialScale + currentDistance / initialDistance - 1, with the scale and
\* the distance recorded when scaling was entered.
C12_AdditiveInRatio ==
    [][\A d \in Distances :
         (FrameAt(d) /\ scaling.active /\ scaling.object # None) =>
            scale'[scaling.object] * scaling.initialDistance
                = scaling.initialScale * scaling.initialDistance
                  + d * UnitScale - UnitScale * scaling.initialDistance]_vars

C12_Witness ==
    /\ scaling.active
    /\ scaling.initialDistance = 2
    /\ scale[scaling.object] = scaling.initialScale - 1

\* C13: collideCube returns the first cube in registry order whose centre is
\* closer to the fingertip than radius * scale (whether or not a later cube is
\* nearer), and none when no cube qualifies.
C13_FirstMatchWins ==
    \A tip \in Positions :
        /\ (\A i \in 1..Len(cubes) : ~Hit(tip, cubes[i])) => collideCube(tip) = None
        /\ \A i \in 1..Len(cubes) :
             (Hit(tip, cubes[i]) /\ \A j \in 1..(i - 1) : ~Hit(tip, cubes[j]))
                => collideCube(tip) = cubes[i]

C13_Witness ==
    \E tip \in Positions :
        \E i, j \in 1..Len(cubes) :
            /\ i < j
            /\ collideCube(tip) = cubes[i]
            /\ Hit(tip, cubes[j])
            /\ DistanceTo(tip, pos[cubes[j]]) < DistanceTo(tip, pos[cubes[i]])

\* a frame is the one step that leaves the pinch state and the cube positions
\* alone and cancels no timer
FrameStep == pinching' = pinching /\ pos' = pos /\ timers' >= timers

\* C14: a tick runs the button update, then recomputes both endpoints of every
\* Connection, then scales, then renders, as one step: when a frame ends, every
\* Connection's stored endpoint positions are the current world positions of
\* its two cubes.
C14_LinesSyncedAtRender ==
    [][FrameStep =>
         \A i \in 1..Len(connections') :
            /\ connections'[i].p1 = pos'[connections'[i].cube1]
            /\ connections'[i].p2 = pos'[connections'[i].cube2]]_vars

C14_Witness ==
    \E i \in 1..Len(connections) :
        /\ connections[i].cube1 # connections[i].cube2
        /\ connections[i].p1 = connections[i].p2
        /\ connections[i].p1 = pos[connections[i].cube1]
        /\ connections[i].p2 = pos[connections[i].cube2]

\* C15: for any sequence of exit-button presses, every deferred callback of
\* the exit action runs while a session is still active: no callback ever
\* calls end() on a session that has already ended.
C15_NoEndOnEndedSession == ~sessionError

\* C16: the cube referenced by the right hand's grab state, and the cube
\* referenced by the scaling state while scaling is active, is a member of
\* the registry.
C16_GrabAndScaleTargetsRegistered ==
    /\ selected # None => selected \in Range(cubes)
    /\ scaling.active => scaling.object \in Range(cubes)

C18_EndpointsDistinct ==
    \A i \in 1..Len(connections) :
        /\ connections[i].cube1 # None
        /\ connections[i].cube2 # None
        /\ connections[i].cube1 # connections[i].cube2

C18_Witness ==
    /\ Len(connections) = MaxConnections
    /\ \A i \in 1..Len(connections) :
          /\ connections[i].cube1 \in Range(cubes)
          /\ connections[i].cube2 \in Range(cubes)
          /\ connections[i].cube1 # connections[i].cube2

\* C19: a cube carries the green selection highlight if and only if it is in
\* the SelectionSet, so whenever the SelectionSet is emptied no cube is left
\* highlighted.
C19_HighlightIffSelected ==
    \A c \in CubeIds : emissive[c] <=> Includes(connectionSelection, c)

\* C20: the uniform scale of every cube in the registry is strictly positive,
\* so the cube can still be hit by the proximity test radius * scale.
C20_ScalePositive ==
    \A i \in 1..Len(cubes) : scale[cubes[i]] > 0
====
